---- MODULE Spec2Model ----
(***************************************************************************)
(* Order-creation transaction and order state machine of the e-commerce    *)
(* backend (products, users, orders over one SQLite file).                 *)
(*                                                                         *)
(* Granularity.  Every repository method is a coroutine that opens its own *)
(* connection and runs one SQLite transaction (DatabaseConnection          *)
(* .transaction).  One such transaction is one atomic step of the model;   *)
(* every `await` of a repository method is a scheduling point between      *)
(* requests (the repository interfaces are async, and several server       *)
(* processes may share ecommerce.db).  Code that runs between two awaits   *)
(* touches only the request's own locals and is folded into the step of    *)
(* the transaction that precedes it.                                       *)
(*                                                                         *)
(* Money.  The tables hold integer cents.  A Decimal is modelled as a      *)
(* record [c, e] standing for c / 10^e, as Python's decimal module keeps a *)
(* coefficient and an exponent.                                            *)
(***************************************************************************)
EXTENDS Integers, Sequences, FiniteSets, TLC

\* ------------------------------------------------------------------ bounds

\* Stock every seeded product starts with, and the largest valid quantity
\* and stock value the environment supplies.
MaxStock == 2

\* Largest number of lines in one create-order request.
MaxLines == 2

\* Number of administrator operations (product create, update, delete and
\* user update) in one behaviour.
MaxAdminOps == 1

\* Largest number of partial updates (PUT /orders/{id}, the store's update)
\* written to one order.
MaxOrderUpdates == 2

\* ------------------------------------------------------- program constants

\* OrderItemCreate.validate_quantity / OrderItem.validate_quantity
MaxQuantity == 1000

\* Product.validate_stock
MaxProductStock == 1000000

\* Product.validate_price / OrderItem.validate_unit_price: 999999.99
MaxPriceCents == 99999999

\* ---------------------------------------------------------------- Decimal

Pow10(e) == IF e = 0 THEN 1 ELSE IF e = 1 THEN 10 ELSE IF e = 2 THEN 100 ELSE 1000

Dec(c, e) == [c |-> c, e |-> e]

\* Decimal(n) / 100 for an integer n: the exact quotient, with the exponent
\* as close to 0 as exactness allows (Decimal(150)/100 = Decimal('1.5')).
DecimalDiv100(n) ==
    IF n % 100 = 0 THEN Dec(n \div 100, 0)
    ELSE IF n % 10 = 0 THEN Dec(n \div 10, 1)
    ELSE Dec(n, 2)

\* d * k for a Decimal d and an integer (or integral Decimal) k.
DecimalMulInt(d, k) == Dec(d.c * k, d.e)

\* int(d): truncation toward zero (all Decimals here are >= 0 when truncated).
DecimalToInt(d) == d.c \div Pow10(d.e)

\* int(d * 100): the cents written to the tables.  The value is
\* DecimalToInt(DecimalMulInt(d, 100)), computed without the intermediate
\* coefficient d.c * 100, which Python holds exactly at any size.
ToCents(d) == IF d.e >= 2 THEN d.c \div Pow10(d.e - 2) ELSE d.c * Pow10(2 - d.e)

\* d > 0, d > Decimal("999999.99") (both sides scaled to thousandths),
\* d.as_tuple().exponent < -2
DecimalPositive(d) == d.c > 0
DecimalExceedsMaxPrice(d) == d.c * Pow10(3 - d.e) > MaxPriceCents * 10
DecimalMoreThan2Places(d) == d.e > 2

\* ------------------------------------------------------------ environment

\* Concurrent create-order requests and concurrent update-status requests.
Requests == {1, 2}
StatusRequests == {1, 2}

\* Rows the products table can hold (product 1 is seeded, the others are
\* created by the administrator), and the ids requests may name.
MaxProducts == 2
ProductIdInputs == 1..MaxProducts

\* Users 1 and 2 are registered; no user has id 3.
UserIdInputs == {1, 2, 3}

\* Order ids an update-status request may name (0 is invalid, and an id names
\* no row until that order is created).
OrderIdInputs == {0, 1, 2}

None == "None"

\* Prices the environment supplies: 10.00 and 0.5, and the invalid 0 and 0.001.
ValidPriceInputs == {Dec(1000, 2), Dec(5, 1)}
PriceInputs == ValidPriceInputs \cup {Dec(0, 0), Dec(1, 3)}

\* Stocks and quantities the environment supplies, valid and invalid.
StockInputs == (0..MaxStock) \cup {-1}
QuantityInputs == (1..MaxStock) \cup {0, MaxQuantity + 1}

\* ------------------------------------------------------------------ state

VARIABLES
    products,      \* table products: row id -> [name, price, stock, is_active]
    users,         \* table users: row id -> [is_active, is_admin, email,
                   \* username]
    orders,        \* table orders: row id -> [user_id, status, total, ...]
    order_items,   \* table order_items: row id -> [order_id, product_id, ...]
    co,            \* locals of each create-order request
    us,            \* locals of each update-status request
    touched,       \* per create-order request: products written by others
    admin_ops,     \* administrator operations so far
    hist,          \* history: per product, the price last written to it,
                   \* the products delete was called on, and per order
                   \* the statuses persisted for it, oldest first
    ur,            \* locals of each register or update-user request
    bulk           \* locals of the bulk-create request

vars == <<products, users, orders, order_items, co, us, touched, admin_ops, hist,
         ur, bulk>>

\* ---------------------------------------------------------- product domain

\* SQLiteProductRepository._row_to_product
row_to_product(row) ==
    [name |-> row.name, price |-> DecimalDiv100(row.price),
     stock |-> row.stock, is_active |-> row.is_active]

\* Product.can_fulfill_quantity
can_fulfill_quantity(product, quantity) ==
    product.is_active /\ product.stock >= quantity /\ quantity > 0

\* Product.reduce_stock: raises unless the quantity can be fulfilled.
reduce_stock_raises(product, quantity) == ~can_fulfill_quantity(product, quantity)

\* Mutant of reduce_stock: the stock is reduced by one unit, not by the quantity.
reduce_stock_ByOne(product, quantity) == [product EXCEPT !.stock = @ - 1]

reduce_stock(product, quantity) == [product EXCEPT !.stock = @ - quantity]

\* CHECK constraints of table products.
ProductsCheck(row) == row.price > 0 /\ row.stock >= 0

\* ProductCreate: stock ge=0, price gt=0 with at most 2 decimal places.
ProductCreateValid(data) ==
    /\ data.stock >= 0
    /\ DecimalPositive(data.price)
    /\ ~DecimalMoreThan2Places(data.price)

\* Product (built by _row_to_product from a row): validate_price, validate_stock.
ProductValid(product) ==
    /\ DecimalPositive(product.price)
    /\ ~DecimalExceedsMaxPrice(product.price)
    /\ ~DecimalMoreThan2Places(product.price)
    /\ product.stock >= 0
    /\ product.stock <= MaxProductStock

\* ProductUpdate: a record of the fields that were set ("fields") and their
\* values; stock ge=0, price gt=0 with at most 2 decimal places.
ProductUpdateValid(data) ==
    /\ ("stock" \in data.fields => data.stock >= 0)
    /\ ("price" \in data.fields =>
            DecimalPositive(data.price) /\ ~DecimalMoreThan2Places(data.price))

\* ProductUpdate(stock=n): only stock is set.
StockUpdate(n) ==
    [fields |-> {"stock"}, name |-> None, price |-> Dec(0, 0), stock |-> n,
     is_active |-> FALSE]

\* The row that SQLiteProductRepository.update's UPDATE statement writes.
UpdatedProductRow(row, data) ==
    [name |-> IF "name" \in data.fields THEN data.name ELSE row.name,
     price |-> IF "price" \in data.fields THEN ToCents(data.price) ELSE row.price,
     stock |-> IF "stock" \in data.fields THEN data.stock ELSE row.stock,
     is_active |-> IF "is_active" \in data.fields THEN data.is_active
                   ELSE row.is_active]

\* SQLiteProductRepository.update as a function of the table: the table after
\* the call.  A missing row and an empty update change nothing; an UPDATE that
\* violates a CHECK constraint raises and is rolled back.
ProductRepositoryUpdate(table, product_id, data) ==
    IF product_id \notin DOMAIN table \/ data.fields = {} THEN table
    ELSE IF ~ProductsCheck(UpdatedProductRow(table[product_id], data)) THEN table
    ELSE [table EXCEPT ![product_id] = UpdatedProductRow(@, data)]

\* ------------------------------------------------------------ order domain

Statuses == {"pending", "confirmed", "processing", "shipped", "delivered", "cancelled"}

\* Mutant of valid_transitions: delivered orders may still be cancelled.
valid_transitions_DeliveredCancellable ==
    [s \in Statuses |->
        CASE s = "pending" -> {"confirmed", "cancelled"}
          [] s = "confirmed" -> {"processing", "cancelled"}
          [] s = "processing" -> {"shipped", "cancelled"}
          [] s = "shipped" -> {"delivered"}
          [] s = "delivered" -> {"cancelled"}
          [] s = "cancelled" -> {}]

\* Mutant of valid_transitions: a confirmed order may be delivered directly.
valid_transitions_ConfirmedDeliverable ==
    [s \in Statuses |->
        CASE s = "pending" -> {"confirmed", "cancelled"}
          [] s = "confirmed" -> {"processing", "cancelled", "delivered"}
          [] s = "processing" -> {"shipped", "cancelled"}
          [] s = "shipped" -> {"delivered"}
          [] s = "delivered" -> {}
          [] s = "cancelled" -> {}]

\* Order.update_status: the valid_transitions table.
valid_transitions ==
    [s \in Statuses |->
        CASE s = "pending" -> {"confirmed", "cancelled"}
          [] s = "confirmed" -> {"processing", "cancelled"}
          [] s = "processing" -> {"shipped", "cancelled"}
          [] s = "shipped" -> {"delivered"}
          [] s = "delivered" -> {}
          [] s = "cancelled" -> {}]

\* Order.update_status raises ValueError for this (status, new_status).
update_status_raises(status, new_status) == new_status \notin valid_transitions[status]

\* OrderItemCreate: product_id gt=0; quantity gt=0 and at most 1000.
OrderItemCreateValid(item) ==
    item.product_id > 0 /\ item.quantity > 0 /\ item.quantity <= MaxQuantity

\* OrderCreate: items min_items=1, every item valid.
OrderCreateValid(data) ==
    /\ Len(data.items) >= 1
    /\ \A k \in 1..Len(data.items) : OrderItemCreateValid(data.items[k])

\* OrderItem: quantity in 1..1000, 0 < unit_price <= 999999.99, subtotal > 0.
OrderItemValid(item) ==
    /\ item.product_id > 0
    /\ item.quantity > 0 /\ item.quantity <= MaxQuantity
    /\ DecimalPositive(item.unit_price) /\ ~DecimalExceedsMaxPrice(item.unit_price)
    /\ DecimalPositive(item.subtotal)

\* The OrderItem that SQLiteOrderRepository.create builds for one line.
BuildOrderItem(line, product) ==
    [product_id |-> line.product_id, product_name |-> product.name,
     quantity |-> line.quantity, unit_price |-> product.price,
     subtotal |-> DecimalMulInt(product.price, line.quantity)]

\* Mutant of LineSubtotalCents: the unit price is added, not price * quantity.
LineSubtotalCents_UnitPrice(line, product) == ToCents(product.price)

\* The subtotal in cents that create adds to total_cents for one line.
LineSubtotalCents(line, product) == ToCents(product.price) * line.quantity

\* Mutant of OrderItemRow: the subtotal is truncated to whole units before it
\* is turned into cents (int(subtotal) * 100).
OrderItemRow_Truncated(order_id, item) ==
    [order_id |-> order_id, product_id |-> item.product_id,
     product_name |-> item.product_name, quantity |-> item.quantity,
     unit_price |-> ToCents(item.unit_price),
     subtotal |-> DecimalToInt(item.subtotal) * 100]

\* The order_items row that create inserts for an OrderItem.
OrderItemRow(order_id, item) ==
    [order_id |-> order_id, product_id |-> item.product_id,
     product_name |-> item.product_name, quantity |-> item.quantity,
     unit_price |-> ToCents(item.unit_price), subtotal |-> ToCents(item.subtotal)]

\* Mutant of InitialStatus: an order of several lines starts confirmed.
InitialStatus_Confirmed(data) ==
    IF Len(data.items) > 1 THEN "confirmed" ELSE "pending"

\* The status create writes into the orders row.
InitialStatus(data) == "pending"

\* CHECK constraints of tables orders and order_items.
OrdersCheck(row) == row.status \in Statuses /\ row.total > 0
OrderItemsCheck(row) == row.quantity > 0 /\ row.unit_price > 0 /\ row.subtotal > 0

RECURSIVE ItemRows(_, _)
ItemRows(order_id, items) ==
    IF items = <<>> THEN <<>>
    ELSE <<OrderItemRow(order_id, Head(items))>> \o ItemRows(order_id, Tail(items))

\* -------------------------------------------------------------- user domain

UserRequests == {1, 2}

EmailInputs == {"ana@x.io", "Ana@x.io", "bob@x.io"}
UsernameInputs == {"ana", "Ana", "bob", "eve"}

\* str.lower() on the strings of the model.
lower(s) ==
    CASE s = "Ana@x.io" -> "ana@x.io"
      [] s = "Ana" -> "ana"
      [] OTHER -> s

\* UserCreate: the email is kept as sent, validate_username returns v.lower().
UserCreateInputs ==
    {[email |-> e, username |-> lower(u)] : e \in EmailInputs, u \in UsernameInputs}

\* The fields of a UserUpdate that the update reads; None is a field not sent.
UserUpdateInputs ==
    [email : EmailInputs \cup {None}, username : UsernameInputs \cup {None}]

UserUpdateIdInputs == {0} \cup UserIdInputs

NoUserLocals ==
    [pc |-> "idle", op |-> None, user_id |-> 0,
     data |-> [email |-> None, username |-> None],
     existing |-> [email |-> None, username |-> None], result |-> None]

\* CREATE TABLE users: email UNIQUE, username UNIQUE.
UsersUnique(table) ==
    \A i, j \in DOMAIN table :
        i # j => /\ table[i].email # table[j].email
                 /\ table[i].username # table[j].username

\* --------------------------------------------------------- request inputs

Lines == [product_id : ProductIdInputs, quantity : QuantityInputs]

RECURSIVE SeqsUpTo(_, _)
SeqsUpTo(S, n) ==
    IF n = 0 THEN {<<>>}
    ELSE SeqsUpTo(S, n - 1) \cup
         {Append(q, x) : q \in {t \in SeqsUpTo(S, n - 1) : Len(t) = n - 1}, x \in S}

\* The requests the environment supplies carry no shipping address and no notes.
OrderCreateInputs ==
    [user_id : UserIdInputs, items : SeqsUpTo(Lines, MaxLines),
     shipping_address : {None}, notes : {None}]

ProductCreateInputs == [name : {"cup"}, price : PriceInputs, stock : {-1, 0, MaxStock}]

ProductUpdateInputs ==
    {[fields |-> {"stock"}, name |-> None, price |-> Dec(0, 0), stock |-> n,
      is_active |-> FALSE] : n \in StockInputs}
    \cup {[fields |-> {"price"}, name |-> None, price |-> d, stock |-> 0,
           is_active |-> FALSE] : d \in PriceInputs}
    \cup {[fields |-> {"is_active"}, name |-> None, price |-> Dec(0, 0), stock |-> 0,
           is_active |-> b] : b \in BOOLEAN}
    \cup {[fields |-> {"name", "price"}, name |-> "jug", price |-> Dec(1000, 2),
           stock |-> 0, is_active |-> FALSE]}
    \cup {[fields |-> {}, name |-> None, price |-> Dec(0, 0), stock |-> 0,
           is_active |-> FALSE]}

\* Largest number of products in one bulk-create request.
MaxBatch == 2

\* ProductBulkCreate.products: the bodies of one bulk-create request.
BulkCreateInputs == SeqsUpTo(ProductCreateInputs, MaxBatch) \ {<<>>}

\* "len0" is a history field: the number of product rows when the request
\* began.
NoBulkLocals == [pc |-> "idle", products |-> <<>>, i |-> 0, result |-> None,
                 len0 |-> 0]

\* ------------------------------------------------------------------- Init

NoLocals ==
    [pc |-> "idle",
     data |-> [user_id |-> 0, items |-> <<>>, shipping_address |-> None,
               notes |-> None],
     i |-> 0,
     new_stock |-> 0, order_items |-> <<>>, total_cents |-> 0,
     result |-> None, failed_line |-> 0, order_id |-> 0, stock0 |-> <<>>,
     caller |-> 0, body_user |-> 0, seen |-> <<>>]

NoStatusLocals ==
    [pc |-> "idle", order_id |-> 0, new_status |-> None, read_status |-> None,
     result |-> None, returned_status |-> None, caller |-> 0]

Init ==
    /\ products = <<[name |-> "mug", price |-> 1999, stock |-> MaxStock,
                     is_active |-> TRUE]>>
    /\ users = <<[is_active |-> TRUE, is_admin |-> TRUE,
                   email |-> "admin@example.com", username |-> "admin"],
                  [is_active |-> FALSE, is_admin |-> FALSE,
                   email |-> "bob@x.io", username |-> "bob"]>>
    /\ orders = <<>>
    /\ order_items = <<>>
    /\ co = [r \in Requests |-> NoLocals]
    /\ us = [u \in StatusRequests |-> NoStatusLocals]
    /\ touched = [r \in Requests |-> {}]
    /\ admin_ops = 0
    /\ hist = [price_in |-> <<{}>>, deleted |-> {}, status_log |-> <<>>]
    /\ ur = [r \in UserRequests |-> NoUserLocals]
    /\ bulk = NoBulkLocals

\* ----------------------------------------------------------- create order

\* A request ends: its result and the line it failed at are kept, the other
\* locals are dropped with the coroutine's frame.  "data", "stock0", "caller"
\* (the authenticated user of an HTTP request, 0 for a direct call of the use
\* case) and "body_user" (the user_id its body carried) are history fields.
Finish(r, result, line, order_id) ==
    [co EXCEPT ![r] = [NoLocals EXCEPT !.pc = "done", !.data = co[r].data,
                                       !.stock0 = co[r].stock0, !.result = result,
                                       !.caller = co[r].caller,
                                       !.body_user = co[r].body_user,
                                       !.seen = co[r].seen,
                                       !.failed_line = line, !.order_id = order_id]]

\* Request r wrote product p: every other request in flight notes it.
Touch(r, p) ==
    [q \in Requests |->
        IF q # r /\ co[q].pc # "idle" THEN touched[q] \cup {p} ELSE touched[q]]

\* Mutant of CreateOrder_GetUser: the user's is_active flag is not checked.
CreateOrder_GetUser_NoActiveCheck(r, data) ==
    /\ co[r].pc = "idle"
    /\ IF ~OrderCreateValid(data)
       THEN co' = [co EXCEPT ![r] = [NoLocals EXCEPT !.pc = "done",
                                                     !.result = "ValidationError"]]
       ELSE LET started == [co EXCEPT ![r].data = data,
                                      ![r].stock0 = [p \in DOMAIN products |->
                                                        products[p].stock]]
            IN  IF data.user_id \notin DOMAIN users
                THEN co' = [started EXCEPT ![r].pc = "done",
                                           ![r].result = "UserNotFound"]
                ELSE co' = [started EXCEPT ![r].pc = "get_product", ![r].i = 1]
    /\ UNCHANGED <<bulk, products, users, ur, orders, order_items, us, touched, admin_ops, hist>>

\* CreateOrderUseCase.execute, step 1: the request body is validated into an
\* OrderCreate, then the user is read and checked.
CreateOrder_GetUser(r, data) ==
    /\ co[r].pc = "idle"
    /\ IF ~OrderCreateValid(data)
       THEN co' = [co EXCEPT ![r] = [NoLocals EXCEPT !.pc = "done",
                                                     !.result = "ValidationError"]]
       ELSE LET started == [co EXCEPT ![r].data = data,
                                      ![r].stock0 = [p \in DOMAIN products |->
                                                        products[p].stock]]
            IN  IF data.user_id \notin DOMAIN users
                THEN co' = [started EXCEPT ![r].pc = "done",
                                           ![r].result = "UserNotFound"]
                ELSE IF ~users[data.user_id].is_active
                THEN co' = [started EXCEPT ![r].pc = "done",
                                           ![r].result = "UserInactive"]
                ELSE co' = [started EXCEPT ![r].pc = "get_product", ![r].i = 1]
    /\ UNCHANGED <<bulk, products, users, ur, orders, order_items, us, touched, admin_ops, hist>>

\* Mutant of CreateOrder_GetProduct: the test of product.is_active is left
\* out of execute.
CreateOrder_GetProduct_NoActiveCheck(r) ==
    /\ co[r].pc = "get_product"
    /\ LET line == co[r].data.items[co[r].i]
           product == row_to_product(products[line.product_id])
       IN  IF line.product_id \notin DOMAIN products
           THEN co' = Finish(r, "ProductNotFound", co[r].i, 0)
           ELSE IF ~ProductValid(product)
           THEN co' = Finish(r, "ValidationError", co[r].i, 0)
           ELSE IF ~can_fulfill_quantity(product, line.quantity)
           THEN co' = Finish(r, "InsufficientStock", co[r].i, 0)
           ELSE co' = [co EXCEPT ![r].pc = "update_stock",
                                 ![r].new_stock =
                                     reduce_stock(product, line.quantity).stock]
    /\ UNCHANGED <<bulk, products, users, ur, orders, order_items, us, touched, admin_ops, hist>>

\* Mutant of CreateOrder_GetProduct: the check and the decrement of line i use
\* the stock the product had when the request started, not the stock left by
\* the earlier lines of the request.
CreateOrder_GetProduct_StaleStock(r) ==
    /\ co[r].pc = "get_product"
    /\ LET line == co[r].data.items[co[r].i]
           read == row_to_product(products[line.product_id])
           product == IF line.product_id \in DOMAIN co[r].stock0
                      THEN [read EXCEPT !.stock = co[r].stock0[line.product_id]]
                      ELSE read
       IN  IF line.product_id \notin DOMAIN products
           THEN co' = Finish(r, "ProductNotFound", co[r].i, 0)
           ELSE IF ~ProductValid(product)
           THEN co' = Finish(r, "ValidationError", co[r].i, 0)
           ELSE IF ~product.is_active
           THEN co' = Finish(r, "ProductInactive", co[r].i, 0)
           ELSE IF ~can_fulfill_quantity(product, line.quantity)
           THEN co' = Finish(r, "InsufficientStock", co[r].i, 0)
           ELSE co' = [co EXCEPT ![r].pc = "update_stock",
                                 ![r].new_stock =
                                     reduce_stock(product, line.quantity).stock]
    /\ UNCHANGED <<bulk, products, users, ur, orders, order_items, us, touched, admin_ops, hist>>

\* execute, step 2, first half for line i: read the product, check it exists,
\* is active and can fulfil the quantity, and reduce the stock of the local copy.
CreateOrder_GetProduct(r) ==
    /\ co[r].pc = "get_product"
    /\ LET line == co[r].data.items[co[r].i]
           product == row_to_product(products[line.product_id])
       IN  IF line.product_id \notin DOMAIN products
           THEN co' = Finish(r, "ProductNotFound", co[r].i, 0)
           ELSE IF ~ProductValid(product)
           THEN co' = Finish(r, "ValidationError", co[r].i, 0)
           ELSE IF ~product.is_active
           THEN co' = Finish(r, "ProductInactive", co[r].i, 0)
           ELSE IF ~can_fulfill_quantity(product, line.quantity)
           THEN co' = Finish(r, "InsufficientStock", co[r].i, 0)
           ELSE IF reduce_stock_raises(product, line.quantity)
           THEN co' = Finish(r, "CannotReduceStock", co[r].i, 0)
           ELSE co' = [co EXCEPT ![r].pc = "update_stock",
                                 ![r].new_stock =
                                     reduce_stock(product, line.quantity).stock]
    /\ UNCHANGED <<bulk, products, users, ur, orders, order_items, us, touched, admin_ops, hist>>

\* execute, step 2, second half for line i: ProductUpdate(stock=product.stock)
\* is written through the product repository, in a transaction of its own
\* (the repository's read of the row before the UPDATE, which raises when the
\* row is not a valid Product, is folded into the step).  "seen" is a history
\* field: the name and price the row of each line had at this write.
CreateOrder_UpdateStock(r) ==
    /\ co[r].pc = "update_stock"
    /\ LET line == co[r].data.items[co[r].i]
           data == StockUpdate(co[r].new_stock)
           written == ProductRepositoryUpdate(products, line.product_id, data)
       IN  IF \/ ~ProductUpdateValid(data)
              \/ ~ProductValid(row_to_product(products[line.product_id]))
           THEN /\ co' = Finish(r, "ValidationError", co[r].i, 0)
                /\ UNCHANGED <<products, touched>>
           ELSE IF ~ProductsCheck(UpdatedProductRow(products[line.product_id], data))
           THEN /\ co' = Finish(r, "IntegrityError", co[r].i, 0)
                /\ UNCHANGED <<products, touched>>
           ELSE /\ products' = written
                /\ touched' = Touch(r, line.product_id)
                /\ co' = LET row == products[line.product_id]
                             at == [name |-> row.name, price |-> row.price]
                         IN  IF co[r].i < Len(co[r].data.items)
                             THEN [co EXCEPT ![r].pc = "get_product",
                                             ![r].i = @ + 1, ![r].new_stock = 0,
                                             ![r].seen = Append(@, at)]
                             ELSE [co EXCEPT ![r].pc = "repo_get_product",
                                             ![r].i = 1, ![r].new_stock = 0,
                                             ![r].seen = Append(@, at)]
    /\ UNCHANGED <<bulk, users, ur, orders, order_items, us, admin_ops, hist>>

\* Mutant of OrderRepo_GetProduct: the orders row is inserted and committed
\* before the loop over the lines, so it stays when a product is not resolved.
OrderRepo_GetProduct_Autocommit(r) ==
    /\ co[r].pc = "repo_get_product"
    /\ LET line == co[r].data.items[co[r].i]
           product == row_to_product(products[line.product_id])
           item == BuildOrderItem(line, product)
           row == [user_id |-> co[r].data.user_id,
                   status |-> InitialStatus(co[r].data), total |-> 1,
                   shipping_address |-> co[r].data.shipping_address,
                   notes |-> co[r].data.notes, updated_at |-> 0, by |-> r]
       IN  IF \/ line.product_id \notin DOMAIN products
              \/ ~ProductValid(product) \/ ~OrderItemValid(item)
           THEN /\ co' = Finish(r, "ValidationError", 0, 0)
                /\ orders' = Append(orders, row)
           ELSE /\ co' = [co EXCEPT
                    ![r].order_items = Append(@, item),
                    ![r].total_cents = @ + LineSubtotalCents(line, product),
                    ![r].i = @ + 1,
                    ![r].pc = IF co[r].i < Len(co[r].data.items)
                              THEN "repo_get_product" ELSE "repo_insert"]
                /\ orders' = orders
    /\ UNCHANGED <<bulk, products, users, ur, order_items, us, touched, admin_ops, hist>>

\* SQLiteOrderRepository.create, the loop over the lines: the product of line
\* i is read again (a transaction of the product repository) for its price
\* and name, and the OrderItem is built and validated.
OrderRepo_GetProduct(r) ==
    /\ co[r].pc = "repo_get_product"
    /\ LET line == co[r].data.items[co[r].i]
           product == row_to_product(products[line.product_id])
           item == BuildOrderItem(line, product)
       IN  IF line.product_id \notin DOMAIN products
           THEN co' = Finish(r, "ProductNotFound", 0, 0)
           ELSE IF ~ProductValid(product) \/ ~OrderItemValid(item)
           THEN co' = Finish(r, "ValidationError", 0, 0)
           ELSE co' = [co EXCEPT
                    ![r].order_items = Append(@, item),
                    ![r].total_cents = @ + LineSubtotalCents(line, product),
                    ![r].i = @ + 1,
                    ![r].pc = IF co[r].i < Len(co[r].data.items)
                              THEN "repo_get_product" ELSE "repo_insert"]
    /\ UNCHANGED <<bulk, products, users, ur, orders, order_items, us, touched, admin_ops, hist>>

\* SQLiteOrderRepository.create, the INSERTs: the orders row and the
\* order_items rows are written and committed in one transaction; a CHECK
\* violation rolls all of them back.  "by" is a history field: the request
\* that inserted the row.  updated_at is a logical time: the number of UPDATE
\* statements the update_order_timestamp trigger has fired for on the row.
OrderRepo_Insert(r) ==
    /\ co[r].pc = "repo_insert"
    /\ LET order_id == Len(orders) + 1
           row == [user_id |-> co[r].data.user_id,
                   status |-> InitialStatus(co[r].data),
                   total |-> co[r].total_cents,
                   shipping_address |-> co[r].data.shipping_address,
                   notes |-> co[r].data.notes, updated_at |-> 0, by |-> r]
           rows == ItemRows(order_id, co[r].order_items)
       IN  IF ~OrdersCheck(row) \/ \E k \in 1..Len(rows) : ~OrderItemsCheck(rows[k])
           THEN /\ co' = Finish(r, "IntegrityError", 0, 0)
                /\ UNCHANGED <<orders, order_items, hist>>
           ELSE /\ orders' = Append(orders, row)
                /\ order_items' = order_items \o rows
                /\ hist' = [hist EXCEPT !.status_log = Append(@, <<row.status>>)]
                /\ co' = Finish(r, "ok", 0, order_id)
    /\ UNCHANGED <<bulk, products, users, ur, us, touched, admin_ops>>

\* ------------------------------------------------------ HTTP create order

\* Bodies of POST /orders/: an OrderCreate whose user_id may be absent
\* (written 0) or name any user.
HttpOrderBodies ==
    [user_id : {0} \cup UserIdInputs, items : SeqsUpTo(Lines, MaxLines),
     shipping_address : {None}, notes : {None}]

\* OrderCreate as the request body: user_id is optional.
HttpOrderBodyValid(body) ==
    /\ Len(body.items) >= 1
    /\ \A k \in 1..Len(body.items) : OrderItemCreateValid(body.items[k])

HttpFinish(r, result) ==
    [co EXCEPT ![r] = [NoLocals EXCEPT !.pc = "done", !.result = result]]

\* Mutant of HttpCreateOrder_Authenticate: the caller's id is used only when
\* the body carries no user_id.
HttpCreateOrder_Authenticate_BodyUserKept(r, caller, body) ==
    /\ co[r].pc = "idle"
    /\ IF ~HttpOrderBodyValid(body)
       THEN co' = HttpFinish(r, "ValidationError")
       ELSE IF caller \notin DOMAIN users
       THEN co' = HttpFinish(r, "Http404")
       ELSE IF ~users[caller].is_active
       THEN co' = HttpFinish(r, "Http403")
       ELSE co' = [co EXCEPT ![r].pc = "authenticated", ![r].caller = caller,
                             ![r].body_user = body.user_id,
                             ![r].data = IF body.user_id = 0
                                         THEN [body EXCEPT !.user_id = caller]
                                         ELSE body]
    /\ UNCHANGED <<bulk, products, users, ur, orders, order_items, us, touched, admin_ops, hist>>

\* POST /orders/ (create_order) up to the call of the use case: the body is
\* validated, get_current_active_user reads the user the token names (404 if
\* absent, 403 if inactive), and the handler overwrites order_data.user_id
\* with the id of that user.
HttpCreateOrder_Authenticate(r, caller, body) ==
    /\ co[r].pc = "idle"
    /\ IF ~HttpOrderBodyValid(body)
       THEN co' = HttpFinish(r, "ValidationError")
       ELSE IF caller \notin DOMAIN users
       THEN co' = HttpFinish(r, "Http404")
       ELSE IF ~users[caller].is_active
       THEN co' = HttpFinish(r, "Http403")
       ELSE co' = [co EXCEPT ![r].pc = "authenticated", ![r].caller = caller,
                             ![r].body_user = body.user_id,
                             ![r].data = [body EXCEPT !.user_id = caller]]
    /\ UNCHANGED <<bulk, products, users, ur, orders, order_items, us, touched, admin_ops, hist>>

\* create_order, the call use_case.execute(order_data): step 1 of execute on
\* the body as the handler left it.
HttpCreateOrder_Execute(r) ==
    /\ co[r].pc = "authenticated"
    /\ LET data == co[r].data
           started == [co EXCEPT ![r].stock0 = [p \in DOMAIN products |->
                                                   products[p].stock]]
       IN  IF data.user_id \notin DOMAIN users
           THEN co' = [started EXCEPT ![r].pc = "done",
                                      ![r].result = "UserNotFound"]
           ELSE IF ~users[data.user_id].is_active
           THEN co' = [started EXCEPT ![r].pc = "done",
                                      ![r].result = "UserInactive"]
           ELSE co' = [started EXCEPT ![r].pc = "get_product", ![r].i = 1]
    /\ UNCHANGED <<bulk, products, users, ur, orders, order_items, us, touched, admin_ops, hist>>

\* ------------------------------------------------------ product operations

\* An operation outside the create-order requests wrote product p.
TouchAll(p) ==
    [q \in Requests |-> IF co[q].pc # "idle" THEN touched[q] \cup {p} ELSE touched[q]]

\* The row SQLiteProductRepository.create inserts (is_active is the literal 1).
CreatedProductRow(data) ==
    [name |-> data.name, price |-> ToCents(data.price), stock |-> data.stock,
     is_active |-> TRUE]

\* CreateProductUseCase.execute -> SQLiteProductRepository.create: the body is
\* validated into a ProductCreate, the row is inserted and read back as a
\* Product inside the same transaction; any failure rolls the insert back.
CreateProduct(data) ==
    /\ admin_ops < MaxAdminOps
    /\ admin_ops' = admin_ops + 1
    /\ Len(products) < MaxProducts
    /\ IF /\ ProductCreateValid(data)
          /\ ProductsCheck(CreatedProductRow(data))
          /\ ProductValid(row_to_product(CreatedProductRow(data)))
       THEN /\ products' = Append(products, CreatedProductRow(data))
            /\ hist' = [hist EXCEPT !.price_in = Append(@, {data.price})]
       ELSE UNCHANGED <<products, hist>>
    /\ UNCHANGED <<bulk, users, ur, orders, order_items, co, us, touched>>

\* Mutant of UpdateProduct: the body is not validated into a ProductUpdate and
\* the UPDATE runs against a table without CHECK constraints.
UpdateProduct_Unchecked(product_id, data) ==
    /\ admin_ops < MaxAdminOps
    /\ admin_ops' = admin_ops + 1
    /\ IF product_id > 0 /\ product_id \in DOMAIN products /\ data.fields # {}
       THEN /\ products' = [products EXCEPT ![product_id] = UpdatedProductRow(@, data)]
            /\ touched' = TouchAll(product_id)
            /\ hist' = IF "price" \in data.fields
                       THEN [hist EXCEPT !.price_in[product_id] = {data.price}]
                       ELSE hist
       ELSE UNCHANGED <<products, touched, hist>>
    /\ UNCHANGED <<bulk, users, ur, orders, order_items, co, us>>

\* UpdateProductUseCase.execute -> SQLiteProductRepository.update.  The reads
\* before the UPDATE (get_by_id in the use case and in the repository) test
\* that the row exists and build a Product from it, which raises when the row
\* is not a valid Product; they are folded into the step of the UPDATE: no
\* product row is ever removed.  The read after the commit changes nothing.
UpdateProduct(product_id, data) ==
    /\ admin_ops < MaxAdminOps
    /\ admin_ops' = admin_ops + 1
    /\ IF product_id > 0 /\ product_id \in DOMAIN products /\ data.fields # {}
          /\ ProductUpdateValid(data)
          /\ ProductValid(row_to_product(products[product_id]))
       THEN /\ products' = ProductRepositoryUpdate(products, product_id, data)
            /\ touched' = TouchAll(product_id)
            /\ hist' = IF /\ "price" \in data.fields
                          /\ ProductsCheck(UpdatedProductRow(products[product_id],
                                                             data))
                       THEN [hist EXCEPT !.price_in[product_id] = {data.price}]
                       ELSE hist
       ELSE UNCHANGED <<products, touched, hist>>
    /\ UNCHANGED <<bulk, users, ur, orders, order_items, co, us>>

\* DeleteProductUseCase.execute -> SQLiteProductRepository.delete (soft
\* delete): UPDATE products SET is_active = 0.  The use case's read of the
\* product before it, which raises when the row is not a valid Product, is
\* folded into the step.
DeleteProduct(product_id) ==
    /\ admin_ops < MaxAdminOps
    /\ admin_ops' = admin_ops + 1
    /\ product_id \in DOMAIN products
    /\ IF ProductValid(row_to_product(products[product_id]))
       THEN /\ products' = [products EXCEPT ![product_id].is_active = FALSE]
            /\ touched' = TouchAll(product_id)
            /\ hist' = [hist EXCEPT !.deleted = @ \cup {product_id}]
       ELSE UNCHANGED <<products, touched, hist>>
    /\ UNCHANGED <<bulk, users, ur, orders, order_items, co, us>>

\* UpdateUserUseCase.execute with UserUpdate(is_active=b) (admin endpoint).
UpdateUser(user_id, b) ==
    /\ admin_ops < MaxAdminOps
    /\ admin_ops' = admin_ops + 1
    /\ user_id \in DOMAIN users
    /\ users' = [users EXCEPT ![user_id].is_active = b]
    /\ UNCHANGED <<bulk, products, orders, order_items, co, us, touched, hist, ur>>

\* ------------------------------------------------------------------ users

email_exists(email) == \E i \in DOMAIN users : users[i].email = lower(email)

username_exists(username) ==
    \E i \in DOMAIN users : users[i].username = lower(username)

UserFinish(r, result) == [ur EXCEPT ![r].pc = "done", ![r].result = result]

\* RegisterUserUseCase.execute: the email check.
Register_EmailExists(r, data) ==
    /\ ur[r].pc = "idle"
    /\ ur' = LET started == [ur EXCEPT ![r].op = "register", ![r].data = data]
             IN  IF email_exists(data.email)
                 THEN [started EXCEPT ![r].pc = "done", ![r].result = "ValueError"]
                 ELSE [started EXCEPT ![r].pc = "username_exists"]
    /\ UNCHANGED <<bulk, products, users, orders, order_items, co, us, touched,
                   admin_ops, hist>>

\* RegisterUserUseCase.execute: the username check, then the password hash.
Register_UsernameExists(r) ==
    /\ ur[r].pc = "username_exists"
    /\ ur' = IF username_exists(ur[r].data.username)
             THEN UserFinish(r, "ValueError")
             ELSE [ur EXCEPT ![r].pc = "create"]
    /\ UNCHANGED <<bulk, products, users, orders, order_items, co, us, touched,
                   admin_ops, hist>>

\* Mutant of UserRepo_create: the table has no UNIQUE constraints.
UserRepo_create_NoUnique(r) ==
    /\ ur[r].pc = "create"
    /\ users' = Append(users, [is_active |-> TRUE, is_admin |-> FALSE,
                               email |-> lower(ur[r].data.email),
                               username |-> lower(ur[r].data.username)])
    /\ ur' = UserFinish(r, "ok")
    /\ UNCHANGED <<bulk, products, orders, order_items, co, us, touched, admin_ops,
                   hist>>

\* SQLiteUserRepository.create: one transaction; a UNIQUE violation raises
\* IntegrityError and the transaction is rolled back.
UserRepo_create(r) ==
    /\ ur[r].pc = "create"
    /\ LET row == [is_active |-> TRUE, is_admin |-> FALSE,
                   email |-> lower(ur[r].data.email),
                   username |-> lower(ur[r].data.username)]
       IN  IF UsersUnique(Append(users, row))
           THEN /\ users' = Append(users, row)
                /\ ur' = UserFinish(r, "ok")
           ELSE /\ users' = users
                /\ ur' = UserFinish(r, "IntegrityError")
    /\ UNCHANGED <<bulk, products, orders, order_items, co, us, touched, admin_ops,
                   hist>>

\* UpdateUserUseCase.execute: the id check and the read of the user.
UpdateUser_GetById(r, user_id, data) ==
    /\ ur[r].pc = "idle"
    /\ ur' = LET started == [ur EXCEPT ![r].op = "update", ![r].data = data,
                                       ![r].user_id = user_id]
             IN  IF user_id <= 0
                 THEN [started EXCEPT ![r].pc = "done", ![r].result = "ValueError"]
                 ELSE IF user_id \notin DOMAIN users
                 THEN [started EXCEPT ![r].pc = "done", ![r].result = "NotFound"]
                 ELSE [started EXCEPT
                          ![r].pc = "email_exists",
                          ![r].existing = [email |-> users[user_id].email,
                                           username |-> users[user_id].username]]
    /\ UNCHANGED <<bulk, products, users, orders, order_items, co, us, touched,
                   admin_ops, hist>>

\* UpdateUserUseCase.execute: the email check, made when the email changes.
UpdateUser_EmailExists(r) ==
    /\ ur[r].pc = "email_exists"
    /\ ur' = IF /\ ur[r].data.email # None
                /\ ur[r].data.email # ur[r].existing.email
                /\ email_exists(ur[r].data.email)
             THEN UserFinish(r, "ValueError")
             ELSE [ur EXCEPT ![r].pc = "update_username_exists"]
    /\ UNCHANGED <<bulk, products, users, orders, order_items, co, us, touched,
                   admin_ops, hist>>

\* UpdateUserUseCase.execute: the username check, made when it changes.
UpdateUser_UsernameExists(r) ==
    /\ ur[r].pc = "update_username_exists"
    /\ ur' = IF /\ ur[r].data.username # None
                /\ ur[r].data.username # ur[r].existing.username
                /\ username_exists(ur[r].data.username)
             THEN UserFinish(r, "ValueError")
             ELSE [ur EXCEPT ![r].pc = "update"]
    /\ UNCHANGED <<bulk, products, users, orders, order_items, co, us, touched,
                   admin_ops, hist>>

UpdatedUserRow(row, data) ==
    [row EXCEPT
        !.email = IF data.email # None THEN lower(data.email) ELSE @,
        !.username = IF data.username # None THEN lower(data.username) ELSE @]

\* SQLiteUserRepository.update: the user is read again (users are never
\* deleted, so it is found), then one UPDATE in one transaction; a UNIQUE
\* violation raises IntegrityError and the transaction is rolled back.
UserRepo_update(r) ==
    /\ ur[r].pc = "update"
    /\ LET table == [users EXCEPT
                        ![ur[r].user_id] = UpdatedUserRow(@, ur[r].data)]
       IN  IF UsersUnique(table)
           THEN /\ users' = table
                /\ ur' = UserFinish(r, "ok")
           ELSE /\ users' = users
                /\ ur' = UserFinish(r, "IntegrityError")
    /\ UNCHANGED <<bulk, products, orders, order_items, co, us, touched, admin_ops,
                   hist>>

\* ------------------------------------------------------------ bulk create

\* POST /admin/products/bulk-create (bulk_create_products), called by an
\* administrator: the handler starts its loop over bulk_data.products.
BulkCreate_Start(batch) ==
    /\ bulk.pc = "idle"
    /\ bulk' = [pc |-> "creating", products |-> batch, i |-> 1,
                result |-> None, len0 |-> Len(products)]
    /\ UNCHANGED <<products, users, ur, orders, order_items, co, us, touched,
                   admin_ops, hist>>

\* bulk_create_products, one turn of the loop: ProductCreate(**product_data)
\* and CreateProductUseCase.execute, which inserts the row in a transaction
\* of its own; any failure ends the request with a 400.
BulkCreate_Next ==
    /\ bulk.pc = "creating"
    /\ LET data == bulk.products[bulk.i]
       IN  IF /\ ProductCreateValid(data)
              /\ ProductsCheck(CreatedProductRow(data))
              /\ ProductValid(row_to_product(CreatedProductRow(data)))
           THEN /\ products' = Append(products, CreatedProductRow(data))
                /\ hist' = [hist EXCEPT !.price_in = Append(@, {data.price})]
                /\ bulk' = IF bulk.i < Len(bulk.products)
                           THEN [bulk EXCEPT !.i = @ + 1]
                           ELSE [bulk EXCEPT !.pc = "done", !.result = "ok"]
           ELSE /\ UNCHANGED <<products, hist>>
                /\ bulk' = [bulk EXCEPT !.pc = "done", !.result = "Http400"]
    /\ UNCHANGED <<users, ur, orders, order_items, co, us, touched, admin_ops>>

\* ---------------------------------------------------------- update status

FinishStatus(u, result, returned) ==
    [us EXCEPT ![u].pc = "done", ![u].result = result,
               ![u].returned_status = returned]

\* Mutant of UpdateStatus_GetOrder: the id check is order_id < 0, so id 0 goes
\* on to the read of the order.
UpdateStatus_GetOrder_ZeroAllowed(u, order_id, new_status) ==
    /\ us[u].pc \in {"idle", "done"}
    /\ LET begun == [us EXCEPT ![u] = [NoStatusLocals EXCEPT
                                          !.order_id = order_id,
                                          !.new_status = new_status]]
       IN  IF order_id < 0
           THEN us' = [begun EXCEPT ![u].pc = "done", ![u].result = "ValidationError"]
           ELSE IF order_id \notin DOMAIN orders
           THEN us' = [begun EXCEPT ![u].pc = "done", ![u].result = "NotFound"]
           ELSE IF update_status_raises(orders[order_id].status, new_status)
           THEN us' = [begun EXCEPT ![u].pc = "done",
                                    ![u].read_status = orders[order_id].status,
                                    ![u].result = "InvalidTransition"]
           ELSE us' = [begun EXCEPT ![u].pc = "repo_update",
                                    ![u].read_status = orders[order_id].status]
    /\ UNCHANGED <<bulk, products, users, ur, orders, order_items, co, touched, admin_ops, hist>>

\* Mutant of UpdateStatus_GetOrder: the status set on the order in memory is
\* written before the move is validated, so a refused move is persisted.
UpdateStatus_GetOrder_WriteFirst(u, order_id, new_status) ==
    /\ us[u].pc \in {"idle", "done"}
    /\ LET begun == [us EXCEPT ![u] = [NoStatusLocals EXCEPT
                                          !.order_id = order_id,
                                          !.new_status = new_status]]
       IN  IF order_id <= 0
           THEN /\ us' = [begun EXCEPT ![u].pc = "done",
                                       ![u].result = "ValidationError"]
                /\ orders' = orders
           ELSE IF order_id \notin DOMAIN orders
           THEN /\ us' = [begun EXCEPT ![u].pc = "done", ![u].result = "NotFound"]
                /\ orders' = orders
           ELSE IF update_status_raises(orders[order_id].status, new_status)
           THEN /\ us' = [begun EXCEPT ![u].pc = "done",
                                       ![u].read_status = orders[order_id].status,
                                       ![u].result = "InvalidTransition"]
                /\ orders' = [orders EXCEPT ![order_id].status = new_status]
           ELSE /\ us' = [begun EXCEPT ![u].pc = "repo_update",
                                       ![u].read_status = orders[order_id].status]
                /\ orders' = orders
    /\ UNCHANGED <<bulk, products, users, ur, order_items, co, touched, admin_ops, hist>>

\* UpdateOrderStatusUseCase.execute up to the call of the repository: the id
\* is checked, the order is read, and Order.update_status validates the move
\* on the copy that was read.
UpdateStatus_GetOrder(u, order_id, new_status) ==
    /\ us[u].pc \in {"idle", "done"}
    /\ LET begun == [us EXCEPT ![u] = [NoStatusLocals EXCEPT
                                          !.order_id = order_id,
                                          !.new_status = new_status]]
       IN  IF order_id <= 0
           THEN us' = [begun EXCEPT ![u].pc = "done", ![u].result = "ValidationError"]
           ELSE IF order_id \notin DOMAIN orders
           THEN us' = [begun EXCEPT ![u].pc = "done", ![u].result = "NotFound"]
           ELSE IF update_status_raises(orders[order_id].status, new_status)
           THEN us' = [begun EXCEPT ![u].pc = "done",
                                    ![u].read_status = orders[order_id].status,
                                    ![u].result = "InvalidTransition"]
           ELSE us' = [begun EXCEPT ![u].pc = "repo_update",
                                    ![u].read_status = orders[order_id].status]
    /\ UNCHANGED <<bulk, products, users, ur, orders, order_items, co, touched, admin_ops, hist>>

\* Mutant of OrderRepo_UpdateStatus: a move to cancelled returns the
\* quantity of the order's first item to the stock of its product.
OrderRepo_UpdateStatus_Restock(u) ==
    /\ us[u].pc = "repo_update"
    /\ orders' = [orders EXCEPT ![us[u].order_id].status = us[u].new_status,
                                ![us[u].order_id].updated_at = @ + 1]
    /\ hist' = [hist EXCEPT !.status_log[us[u].order_id] =
                                IF orders[us[u].order_id].status = us[u].new_status
                                THEN @ ELSE Append(@, us[u].new_status)]
    /\ us' = [us EXCEPT ![u].pc = "repo_reread"]
    /\ products' =
          IF us[u].new_status # "cancelled" THEN products
          ELSE LET k == CHOOSE k \in DOMAIN order_items :
                            order_items[k].order_id = us[u].order_id
               IN  [products EXCEPT ![order_items[k].product_id].stock =
                                        @ + order_items[k].quantity]
    /\ UNCHANGED <<bulk, users, ur, order_items, co, touched, admin_ops>>

\* SQLiteOrderRepository.update_status -> update: the UPDATE of the status
\* column, in a transaction of its own (the read that only tests that the row
\* exists is folded into it: no order row is ever removed).
OrderRepo_UpdateStatus(u) ==
    /\ us[u].pc = "repo_update"
    /\ orders' = [orders EXCEPT ![us[u].order_id].status = us[u].new_status,
                                ![us[u].order_id].updated_at = @ + 1]
    /\ hist' = [hist EXCEPT !.status_log[us[u].order_id] =
                                IF orders[us[u].order_id].status = us[u].new_status
                                THEN @ ELSE Append(@, us[u].new_status)]
    /\ us' = [us EXCEPT ![u].pc = "repo_reread"]
    /\ UNCHANGED <<bulk, products, users, ur, order_items, co, touched, admin_ops>>

\* SQLiteOrderRepository.update, last line: the order is read again after the
\* commit and returned to the caller.
OrderRepo_Reread(u) ==
    /\ us[u].pc = "repo_reread"
    /\ us' = FinishStatus(u, "ok", orders[us[u].order_id].status)
    /\ UNCHANGED <<bulk, products, users, ur, orders, order_items, co, touched, admin_ops, hist>>

\* --------------------------------------------------- HTTP update status

\* Callers of the order routes: 0 is a request with no valid token.
HttpCallers == {0} \cup UserIdInputs

\* Mutant of HttpUpdateStatus_Authenticate: the handler does not test
\* current_user.is_admin.
HttpUpdateStatus_Authenticate_NoAdminCheck(u, caller, order_id, new_status) ==
    /\ us[u].pc \in {"idle", "done"}
    /\ LET begun == [us EXCEPT ![u] = [NoStatusLocals EXCEPT
                                          !.order_id = order_id,
                                          !.new_status = new_status,
                                          !.caller = caller]]
       IN  IF caller = 0
           THEN us' = [begun EXCEPT ![u].pc = "done", ![u].result = "Http401"]
           ELSE IF caller \notin DOMAIN users
           THEN us' = [begun EXCEPT ![u].pc = "done", ![u].result = "Http404"]
           ELSE IF ~users[caller].is_active
           THEN us' = [begun EXCEPT ![u].pc = "done", ![u].result = "Http403"]
           ELSE us' = [begun EXCEPT ![u].pc = "authorized"]
    /\ UNCHANGED <<bulk, products, users, ur, orders, order_items, co, touched, admin_ops, hist>>

\* PATCH /orders/{order_id}/status (update_order_status) up to the call of
\* the use case: get_current_active_user answers 401 without a valid token,
\* 404 when the token names no user and 403 when the user is inactive, and
\* the handler answers 403 when the user is not an administrator.
HttpUpdateStatus_Authenticate(u, caller, order_id, new_status) ==
    /\ us[u].pc \in {"idle", "done"}
    /\ LET begun == [us EXCEPT ![u] = [NoStatusLocals EXCEPT
                                          !.order_id = order_id,
                                          !.new_status = new_status,
                                          !.caller = caller]]
       IN  IF caller = 0
           THEN us' = [begun EXCEPT ![u].pc = "done", ![u].result = "Http401"]
           ELSE IF caller \notin DOMAIN users
           THEN us' = [begun EXCEPT ![u].pc = "done", ![u].result = "Http404"]
           ELSE IF ~users[caller].is_active
           THEN us' = [begun EXCEPT ![u].pc = "done", ![u].result = "Http403"]
           ELSE IF ~users[caller].is_admin
           THEN us' = [begun EXCEPT ![u].pc = "done", ![u].result = "Http403"]
           ELSE us' = [begun EXCEPT ![u].pc = "authorized"]
    /\ UNCHANGED <<bulk, products, users, ur, orders, order_items, co, touched, admin_ops, hist>>

\* update_order_status, the call use_case.execute(order_id, new_status):
\* UpdateOrderStatusUseCase.execute up to the call of the repository.
HttpUpdateStatus_Execute(u) ==
    /\ us[u].pc = "authorized"
    /\ LET order_id == us[u].order_id
           new_status == us[u].new_status
       IN  IF order_id <= 0
           THEN us' = [us EXCEPT ![u].pc = "done", ![u].result = "ValidationError"]
           ELSE IF order_id \notin DOMAIN orders
           THEN us' = [us EXCEPT ![u].pc = "done", ![u].result = "NotFound"]
           ELSE IF update_status_raises(orders[order_id].status, new_status)
           THEN us' = [us EXCEPT ![u].pc = "done",
                                 ![u].read_status = orders[order_id].status,
                                 ![u].result = "InvalidTransition"]
           ELSE us' = [us EXCEPT ![u].pc = "repo_update",
                                 ![u].read_status = orders[order_id].status]
    /\ UNCHANGED <<bulk, products, users, ur, orders, order_items, co, touched, admin_ops, hist>>

\* ------------------------------------------------------------ order reads

\* Mutant of row_to_order_item: the name and the unit price are looked up in
\* table products (a join on product_id), not taken from the item row.
row_to_order_item_LiveProduct(row) ==
    [product_id |-> row.product_id,
     product_name |-> products[row.product_id].name,
     quantity |-> row.quantity,
     unit_price |-> DecimalDiv100(products[row.product_id].price),
     subtotal |-> DecimalDiv100(row.subtotal)]

\* SQLiteOrderRepository._row_to_order_item
row_to_order_item(row) ==
    [product_id |-> row.product_id, product_name |-> row.product_name,
     quantity |-> row.quantity, unit_price |-> DecimalDiv100(row.unit_price),
     subtotal |-> DecimalDiv100(row.subtotal)]

\* SQLiteOrderRepository._row_to_order
row_to_order(order_id, order_row, items) ==
    [id |-> order_id, user_id |-> order_row.user_id, items |-> items,
     status |-> order_row.status, total |-> DecimalDiv100(order_row.total),
     shipping_address |-> order_row.shipping_address, notes |-> order_row.notes,
     updated_at |-> order_row.updated_at]

\* SELECT * FROM order_items WHERE order_id = ?
SelectOrderItems(order_id) ==
    SelectSeq(order_items, LAMBDA row : row.order_id = order_id)

\* SQLiteOrderRepository.get_by_id: None, or the order with its items.
get_by_id(order_id) ==
    IF order_id \notin DOMAIN orders THEN None
    ELSE LET item_rows == SelectOrderItems(order_id)
         IN  row_to_order(order_id, orders[order_id],
                          [k \in DOMAIN item_rows |-> row_to_order_item(item_rows[k])])

\* ------------------------------------------------------------- order list

\* An Optional[int] argument is the set of the values given: {} for None.
\* Rows of table orders that pass the WHERE clause get_all and count build:
\* a filter is added only for a truthy user_id and a given status.
MatchingOrders(user_id, status) ==
    {o \in DOMAIN orders :
        /\ \A n \in user_id : n # 0 => orders[o].user_id = n
        /\ (status = None \/ orders[o].status = status)}

\* SQLiteOrderRepository.count
count(user_id, status) == Cardinality(MatchingOrders(user_id, status))

\* The orders of the matching rows in the orders ORDER BY created_at DESC may
\* return them: created_at has a resolution of one second, so the model
\* admits every order of the rows.
OrderedMatches(user_id, status) ==
    LET ids == MatchingOrders(user_id, status)
    IN  {f \in [1..Cardinality(ids) -> ids] :
            \A j, k \in DOMAIN f : j # k => f[j] # f[k]}

\* SQLiteOrderRepository.get_all: the pages LIMIT limit OFFSET skip may return.
get_all(user_id, status, skip, limit) ==
    {[k \in 1..(IF Len(f) - skip < limit
                THEN (IF Len(f) > skip THEN Len(f) - skip ELSE 0)
                ELSE limit) |-> get_by_id(f[skip + k])] :
        f \in OrderedMatches(user_id, status)}

\* Parameters SQLiteOrderRepository.get_all declares (besides self), and the
\* keywords GetOrdersUseCase.execute passes in its call of repository.get_all.
GetAllParameters == {"user_id", "status", "skip", "limit"}
GetAllKeywords == {"user_id", "status", "skip", "limit", "sort_by", "sort_order"}

\* GetOrdersUseCase.execute with no sort_by and no sort_order: the results
\* the call may have.  skip and limit are clamped, a user_id <= 0 is refused,
\* and a call with a keyword the callee does not declare raises TypeError.
GetOrdersUseCase_execute(user_id, status, skip, limit) ==
    LET skip1 == IF skip < 0 THEN 0 ELSE skip
        limit1 == IF limit < 1 THEN 1 ELSE IF limit > 100 THEN 100 ELSE limit
    IN  IF \E n \in user_id : n <= 0
        THEN {[error |-> "ValueError", orders |-> <<>>, total |-> 0]}
        ELSE IF ~(GetAllKeywords \subseteq GetAllParameters)
        THEN {[error |-> "TypeError", orders |-> <<>>, total |-> 0]}
        ELSE {[error |-> None, orders |-> page, total |-> count(user_id, status)] :
                 page \in get_all(user_id, status, skip1, limit1)}

\* ------------------------------------------------------------ order update

\* OrderUpdate bodies the environment supplies: the fields that were set
\* ("fields") and their values.
OrderUpdateInputs ==
    {[fields |-> {"shipping_address"}, status |-> None,
      shipping_address |-> "1 Main St", notes |-> None],
     [fields |-> {"notes"}, status |-> None,
      shipping_address |-> None, notes |-> "morning"],
     [fields |-> {"status", "notes"}, status |-> "cancelled",
      shipping_address |-> None, notes |-> "morning"],
     [fields |-> {"status"}, status |-> "delivered",
      shipping_address |-> None, notes |-> None],
     [fields |-> {}, status |-> None, shipping_address |-> None, notes |-> None]}

\* SQLiteOrderRepository.update: update_fields is not empty.
HasUpdateFields(data) ==
    \/ "status" \in data.fields /\ data.status # None
    \/ "shipping_address" \in data.fields
    \/ "notes" \in data.fields

\* The row after SQLiteOrderRepository.update: the UPDATE statement, when
\* there is a field to write, and the update_order_timestamp trigger.
UpdatedOrderRow(row, data) ==
    [row EXCEPT
        !.updated_at = IF HasUpdateFields(data) THEN @ + 1 ELSE @,
        !.status = IF "status" \in data.fields /\ data.status # None
                   THEN data.status ELSE @,
        !.shipping_address = IF "shipping_address" \in data.fields
                             THEN data.shipping_address ELSE @,
        !.notes = IF "notes" \in data.fields THEN data.notes ELSE @]

\* PUT /orders/{order_id} (update_order).  A body with a status is handed to
\* update_order_status(order_id, status) called as a plain function: its
\* current_user is then the Depends default, not a User, and the call ends in
\* an error response before any persistence access.  Any other body goes to
\* SQLiteOrderRepository.update, whose UPDATE is one transaction (the reads
\* before and after it are folded into the step: no order row is ever removed).
UpdateOrder(order_id, data) ==
    /\ order_id \in DOMAIN orders => orders[order_id].updated_at < MaxOrderUpdates
    /\ IF data.status # None \/ order_id \notin DOMAIN orders
       THEN UNCHANGED orders
       ELSE orders' = [orders EXCEPT ![order_id] = UpdatedOrderRow(@, data)]
    /\ UNCHANGED <<bulk, products, users, ur, order_items, co, us, touched, admin_ops, hist>>

\* SQLiteOrderRepository.update called on the order store itself, with any
\* OrderUpdate: None when the order does not exist, otherwise one UPDATE of
\* the fields that were set, in one transaction (the reads before and after it
\* are folded into the step: no order row is ever removed).
OrderRepo_update(order_id, data) ==
    /\ order_id \in DOMAIN orders => orders[order_id].updated_at < MaxOrderUpdates
    /\ IF order_id \notin DOMAIN orders
       THEN UNCHANGED <<orders, hist>>
       ELSE LET row == UpdatedOrderRow(orders[order_id], data)
            IN  /\ orders' = [orders EXCEPT ![order_id] = row]
                /\ hist' = [hist EXCEPT !.status_log[order_id] =
                                IF row.status = orders[order_id].status
                                THEN @ ELSE Append(@, row.status)]
    /\ UNCHANGED <<bulk, products, users, ur, order_items, co, us, touched, admin_ops>>

\* ----------------------------------------------------------------- Next

NextOrders ==
    \/ \E r \in Requests, data \in OrderCreateInputs : CreateOrder_GetUser(r, data)
    \/ \E r \in Requests : CreateOrder_GetProduct(r)
    \/ \E r \in Requests : CreateOrder_UpdateStock(r)
    \/ \E r \in Requests : OrderRepo_GetProduct(r)
    \/ \E r \in Requests : OrderRepo_Insert(r)

SpecOrders == Init /\ [][NextOrders]_vars

\* Create-order requests interleaved with the administrator's operations.
Next ==
    \/ NextOrders
    \/ \E data \in ProductCreateInputs : CreateProduct(data)
    \/ \E p \in ProductIdInputs, data \in ProductUpdateInputs : UpdateProduct(p, data)
    \/ \E p \in ProductIdInputs : DeleteProduct(p)
    \/ \E u \in UserIdInputs, b \in BOOLEAN : UpdateUser(u, b)

Spec == Init /\ [][Next]_vars

\* One order of one line, and concurrent update-status requests on it.
StatusOrderInputs ==
    {[user_id |-> 1, items |-> <<[product_id |-> 1, quantity |-> 1]>>,
      shipping_address |-> None, notes |-> None]}

NextStatus ==
    \/ \E data \in StatusOrderInputs : CreateOrder_GetUser(1, data)
    \/ CreateOrder_GetProduct(1)
    \/ CreateOrder_UpdateStock(1)
    \/ OrderRepo_GetProduct(1)
    \/ OrderRepo_Insert(1)
    \/ \E u \in StatusRequests, o \in OrderIdInputs, s \in Statuses :
            UpdateStatus_GetOrder(u, o, s)
    \/ \E u \in StatusRequests : OrderRepo_UpdateStatus(u)
    \/ \E u \in StatusRequests : OrderRepo_Reread(u)

SpecStatus == Init /\ [][NextStatus]_vars


\* One create-order request, the administrator's operations, order updates
\* and one update-status request at a time.
NextSnapshot ==
    \/ \E data \in OrderCreateInputs : CreateOrder_GetUser(1, data)
    \/ CreateOrder_GetProduct(1)
    \/ CreateOrder_UpdateStock(1)
    \/ OrderRepo_GetProduct(1)
    \/ OrderRepo_Insert(1)
    \/ \E data \in ProductCreateInputs : CreateProduct(data)
    \/ \E p \in ProductIdInputs, data \in ProductUpdateInputs : UpdateProduct(p, data)
    \/ \E p \in ProductIdInputs : DeleteProduct(p)
    \/ \E u \in UserIdInputs, b \in BOOLEAN : UpdateUser(u, b)
    \/ \E o \in OrderIdInputs, data \in OrderUpdateInputs : UpdateOrder(o, data)
    \/ \E o \in OrderIdInputs, st \in Statuses : UpdateStatus_GetOrder(1, o, st)
    \/ OrderRepo_UpdateStatus(1)
    \/ OrderRepo_Reread(1)

SpecSnapshot == Init /\ [][NextSnapshot]_vars


\* One create-order request that comes in over HTTP, and user updates.
NextHttp ==
    \/ \E caller \in UserIdInputs, body \in HttpOrderBodies :
            HttpCreateOrder_Authenticate(1, caller, body)
    \/ HttpCreateOrder_Execute(1)
    \/ CreateOrder_GetProduct(1)
    \/ CreateOrder_UpdateStock(1)
    \/ OrderRepo_GetProduct(1)
    \/ OrderRepo_Insert(1)
    \/ \E u \in UserIdInputs, b \in BOOLEAN : UpdateUser(u, b)

SpecHttp == Init /\ [][NextHttp]_vars

\* Prices written in the money round trip: 10.00, 0.5, 19.99, 0.01,
\* 999999.99 and 1000000.00.
MoneyPriceInputs ==
    ValidPriceInputs \cup
        {Dec(1999, 2), Dec(1, 2), Dec(MaxPriceCents, 2), Dec(MaxPriceCents + 1, 2)}

\* One create-order request, and products created and repriced at the prices
\* of MoneyPriceInputs.
NextMoney ==
    \/ \E data \in OrderCreateInputs : CreateOrder_GetUser(1, data)
    \/ CreateOrder_GetProduct(1)
    \/ CreateOrder_UpdateStock(1)
    \/ OrderRepo_GetProduct(1)
    \/ OrderRepo_Insert(1)
    \/ \E d \in MoneyPriceInputs :
            CreateProduct([name |-> "cup", price |-> d, stock |-> MaxStock])
    \/ \E p \in ProductIdInputs, d \in MoneyPriceInputs :
            UpdateProduct(p, [fields |-> {"price"}, name |-> None, price |-> d,
                              stock |-> 0, is_active |-> FALSE])

SpecMoney == Init /\ [][NextMoney]_vars

\* Register and update-user requests, interleaved at every repository call.
NextUsers ==
    \/ \E r \in UserRequests, data \in UserCreateInputs :
            Register_EmailExists(r, data)
    \/ \E r \in UserRequests : Register_UsernameExists(r)
    \/ \E r \in UserRequests : UserRepo_create(r)
    \/ \E r \in UserRequests, u \in UserUpdateIdInputs, data \in UserUpdateInputs :
            UpdateUser_GetById(r, u, data)
    \/ \E r \in UserRequests : UpdateUser_EmailExists(r)
    \/ \E r \in UserRequests : UpdateUser_UsernameExists(r)
    \/ \E r \in UserRequests : UserRepo_update(r)

SpecUsers == Init /\ [][NextUsers]_vars

\* One order of one line, one update-status request at a time, and partial
\* updates through PUT /orders/{id} and through the order store's update.
NextStore ==
    \/ \E data \in StatusOrderInputs : CreateOrder_GetUser(1, data)
    \/ CreateOrder_GetProduct(1)
    \/ CreateOrder_UpdateStock(1)
    \/ OrderRepo_GetProduct(1)
    \/ OrderRepo_Insert(1)
    \/ \E o \in OrderIdInputs, st \in Statuses : UpdateStatus_GetOrder(1, o, st)
    \/ OrderRepo_UpdateStatus(1)
    \/ OrderRepo_Reread(1)
    \/ \E o \in OrderIdInputs, data \in OrderUpdateInputs : UpdateOrder(o, data)
    \/ \E o \in OrderIdInputs, data \in OrderUpdateInputs : OrderRepo_update(o, data)

SpecStore == Init /\ [][NextStore]_vars

\* One order of one line, status updates that come in over HTTP (PATCH
\* /orders/{id}/status and PUT /orders/{id}), and user updates.
NextHttpStatus ==
    \/ \E data \in StatusOrderInputs : CreateOrder_GetUser(1, data)
    \/ CreateOrder_GetProduct(1)
    \/ CreateOrder_UpdateStock(1)
    \/ OrderRepo_GetProduct(1)
    \/ OrderRepo_Insert(1)
    \/ \E caller \in HttpCallers, o \in OrderIdInputs, st \in Statuses :
            HttpUpdateStatus_Authenticate(1, caller, o, st)
    \/ HttpUpdateStatus_Execute(1)
    \/ OrderRepo_UpdateStatus(1)
    \/ OrderRepo_Reread(1)
    \/ \E o \in OrderIdInputs, data \in OrderUpdateInputs : UpdateOrder(o, data)
    \/ \E u \in UserIdInputs, b \in BOOLEAN : UpdateUser(u, b)

SpecHttpStatus == Init /\ [][NextHttpStatus]_vars

\* One bulk-create request.
NextBulk ==
    \/ \E batch \in BulkCreateInputs : BulkCreate_Start(batch)
    \/ BulkCreate_Next

SpecBulk == Init /\ [][NextBulk]_vars

\* ----------------------------------------------------------------- claims

RECURSIVE LinesQuantity(_, _)
\* Total quantity a list of lines requests of product p.
LinesQuantity(lines, p) ==
    IF lines = <<>> THEN 0
    ELSE (IF Head(lines).product_id = p THEN Head(lines).quantity ELSE 0)
         + LinesQuantity(Tail(lines), p)

RECURSIVE SumSubtotals(_, _)
\* Sum of the subtotals of the order_items rows of order o.
SumSubtotals(rows, o) ==
    IF rows = <<>> THEN 0
    ELSE (IF Head(rows).order_id = o THEN Head(rows).subtotal ELSE 0)
         + SumSubtotals(Tail(rows), o)

ProductErrors == {"ProductNotFound", "ProductInactive", "InsufficientStock"}
UserErrors == {"UserNotFound", "UserInactive"}

Succeeded(r) == co[r].pc = "done" /\ co[r].result = "ok"
NoOrderOf(r) == \A o \in DOMAIN orders : orders[o].by # r

\* Product p had a row when request r started, and nothing but r wrote it since.
Undisturbed(r, p) == p \in DOMAIN co[r].stock0 /\ p \notin touched[r]

\* C1 (as claimed): when a create-order request has failed at its k-th line
\* with a product error, every product of lines 1..k-1 (that no other
\* operation wrote meanwhile) has the stock it had when the request started,
\* and no order row of the request exists.
C1_AllOrNothing ==
    \A r \in Requests :
        (co[r].pc = "done" /\ co[r].result \in ProductErrors) =>
            /\ NoOrderOf(r)
            /\ \A k \in 1..(co[r].failed_line - 1) :
                   LET p == co[r].data.items[k].product_id
                   IN  Undisturbed(r, p) => products[p].stock = co[r].stock0[p]

\* C2 (as claimed): the quantities of a product in the persisted orders never
\* add up to more than the stock the product had before the requests (every
\* product starts with MaxStock and SpecOrders has no restocking).
C2_NoOverselling ==
    \A p \in DOMAIN products : LinesQuantity(order_items, p) <= MaxStock

\* C3: every persisted product has stock >= 0 and price > 0.
C3_StockAndPriceInvariant ==
    \A p \in DOMAIN products : products[p].stock >= 0 /\ products[p].price > 0

\* C3 witness: an order has depleted a product to stock 0 and the
\* administrator has also acted.
C3_Witness ==
    /\ admin_ops > 0
    /\ \E r \in Requests : Succeeded(r) /\ products[1].stock = 0
                           /\ LinesQuantity(co[r].data.items, 1) > 0

\* C4: after a successful create-order, a product that no other operation
\* wrote since the request started has its stock at the start minus the total
\* quantity the request asked of it.
C4_StockDecrementedExactly ==
    \A r \in Requests :
        Succeeded(r) =>
            \A p \in DOMAIN co[r].stock0 :
                Undisturbed(r, p) =>
                    products[p].stock =
                        co[r].stock0[p] - LinesQuantity(co[r].data.items, p)

\* C4 witness: a request of two lines for product 1 succeeded undisturbed
\* while the other request was in flight.
C4_Witness ==
    \E r \in Requests :
        /\ Succeeded(r) /\ Undisturbed(r, 1)
        /\ Len(co[r].data.items) = 2
        /\ LinesQuantity(co[r].data.items, 1) = 2
        /\ \E q \in Requests : q # r /\ co[q].pc \notin {"idle", "done"}

\* The seven moves of the transition table, as the claim lists them.
TablePairs ==
    {<<"pending", "confirmed">>, <<"pending", "cancelled">>,
     <<"confirmed", "processing">>, <<"confirmed", "cancelled">>,
     <<"processing", "shipped">>, <<"processing", "cancelled">>,
     <<"shipped", "delivered">>}

\* C5: an update-status request that found its order goes on to write and
\* succeeds exactly when (the status it read, the requested status) is one of
\* the seven table pairs; for every other pair it ends with an
\* invalid-transition error.
C5_TransitionTable ==
    \A u \in StatusRequests :
        us[u].read_status # None =>
            LET pair == <<us[u].read_status, us[u].new_status>>
            IN  /\ pair \in TablePairs =>
                    /\ us[u].pc \in {"repo_update", "repo_reread", "done"}
                    /\ us[u].pc = "done" => us[u].result = "ok"
                /\ pair \notin TablePairs =>
                    us[u].pc = "done" /\ us[u].result = "InvalidTransition"

\* C5 witness: one request has moved the order from shipped to delivered, and
\* another was refused a move out of delivered.
C5_Witness ==
    \E u, v \in StatusRequests :
        /\ us[u].pc = "done" /\ us[u].result = "ok"
        /\ us[u].read_status = "shipped" /\ us[u].new_status = "delivered"
        /\ us[v].pc = "done" /\ us[v].result = "InvalidTransition"
        /\ us[v].read_status = "delivered"

\* C6 (as claimed): once the persisted status of an order is delivered or
\* cancelled, no step changes it.
C6_TerminalAbsorbing ==
    [][\A o \in DOMAIN orders :
          orders[o].status \in {"delivered", "cancelled"} =>
              orders'[o].status = orders[o].status]_vars

\* C7, the aftermath: a request refused for its user has inserted no order, and
\* every product it names that no other operation wrote has the stock it had
\* when the request started.
C7_State ==
    \A r \in Requests :
        (co[r].pc = "done" /\ co[r].result \in UserErrors) =>
            /\ NoOrderOf(r)
            /\ \A k \in 1..Len(co[r].data.items) :
                   LET p == co[r].data.items[k].product_id
                   IN  Undisturbed(r, p) => products[p].stock = co[r].stock0[p]

\* C7, the step: a valid request whose user is absent or inactive when the
\* user is read ends in that step with a user error, and the step leaves the
\* three tables as they were; a finished request takes no further step.
C7_Step ==
    \A r \in Requests :
        /\ (/\ co[r].pc = "idle" /\ co'[r].pc # "idle"
            /\ co'[r].result # "ValidationError"
            /\ \/ co'[r].data.user_id \notin DOMAIN users
               \/ ~users[co'[r].data.user_id].is_active)
           => /\ co'[r].pc = "done" /\ co'[r].result \in UserErrors
              /\ products' = products /\ orders' = orders
              /\ order_items' = order_items
        /\ co[r].pc = "done" => co'[r] = co[r]

\* C7: creating an order for a user that does not exist or is inactive fails
\* before any product is read or written: stock is unchanged and no order is
\* persisted.
C7_InactiveUserRejected == [][C7_Step]_vars /\ []C7_State

\* C7 witness: a request naming product 1 was refused because its user had
\* been deactivated by the administrator.
C7_Witness ==
    \E r \in Requests :
        /\ co[r].pc = "done" /\ co[r].result = "UserInactive"
        /\ co[r].data.user_id = 1
        /\ LinesQuantity(co[r].data.items, 1) > 0

\* Order ids of the rows of order_items.
ItemOrderIds == {order_items[k].order_id : k \in DOMAIN order_items}

Abs(n) == IF n < 0 THEN -n ELSE n

\* C8: every persisted order has at least one item, and its total is within 1
\* cent of the sum of the subtotals of its items.
C8_TotalIsSumOfSubtotals ==
    \A o \in DOMAIN orders :
        /\ o \in ItemOrderIds
        /\ Abs(orders[o].total - SumSubtotals(order_items, o)) <= 1

\* C8 witness: an order of two items whose unit prices differ (the price
\* changed between the two reads).
C8_Witness ==
    \E j, k \in DOMAIN order_items :
        /\ j # k /\ order_items[j].order_id = order_items[k].order_id
        /\ order_items[j].unit_price # order_items[k].unit_price

\* C9: every persisted order item has subtotal = unit_price * quantity in
\* cents, and a quantity in 1..1000.
C9_SubtotalExact ==
    \A k \in DOMAIN order_items :
        /\ order_items[k].subtotal = order_items[k].unit_price * order_items[k].quantity
        /\ order_items[k].quantity \in 1..1000

\* C9 witness: an item of quantity 2 at 19.99.
C9_Witness ==
    \E k \in DOMAIN order_items :
        order_items[k].quantity = 2 /\ order_items[k].unit_price = 1999

\* C10: every step that adds an order row adds it with status pending.
C10_CreatedPending ==
    [][\A o \in DOMAIN orders' :
          o \notin DOMAIN orders => orders'[o].status = "pending"]_vars

\* C10 witness: two orders have been created, one of them with two lines.
C10_Witness ==
    /\ Len(orders) = 2
    /\ \E r \in Requests : Succeeded(r) /\ Len(co[r].data.items) = 2

\* A finished request of exactly two lines, both for product p, that passed
\* the user check, where p was active and nothing but the request wrote p.
TwoLinesOf(r, p) ==
    /\ co[r].pc = "done" /\ co[r].result \notin UserErrors \cup {"ValidationError"}
    /\ Len(co[r].data.items) = 2
    /\ co[r].data.items[1].product_id = p /\ co[r].data.items[2].product_id = p
    /\ Undisturbed(r, p) /\ products[p].is_active

\* Lines are taken in input order: a request that failed at line k has
\* decremented, of every undisturbed product, exactly what lines 1..k-1 asked.
C11_PrefixDecremented ==
    \A r \in Requests :
        (co[r].pc = "done" /\ co[r].failed_line > 0) =>
            \A p \in DOMAIN co[r].stock0 :
                Undisturbed(r, p) =>
                    products[p].stock =
                        co[r].stock0[p]
                        - LinesQuantity(SubSeq(co[r].data.items, 1,
                                               co[r].failed_line - 1), p)

\* Two lines for one product with quantities q1, q2 succeed iff q1 + q2 <= the
\* stock at the start, and then the stock is lower by q1 + q2.
C11_SucceedsIff ==
    \A r \in Requests : \A p \in DOMAIN products :
        TwoLinesOf(r, p) =>
            LET q1 == co[r].data.items[1].quantity
                q2 == co[r].data.items[2].quantity
            IN  /\ co[r].result = "ok" <=> q1 + q2 <= co[r].stock0[p]
                /\ co[r].result = "ok" =>
                       products[p].stock = co[r].stock0[p] - (q1 + q2)
                /\ co[r].result # "ok" => co[r].result = "InsufficientStock"

\* C11 (as claimed): lines are checked and decremented in input order, each
\* check reading the stock left by the earlier lines; two lines for the same
\* product succeed iff q1 + q2 <= stock, decrementing q1 + q2, and otherwise
\* the request fails with InsufficientStock at the second line.
C11_AsClaimed ==
    /\ C11_PrefixDecremented
    /\ C11_SucceedsIff
    /\ \A r \in Requests : \A p \in DOMAIN products :
           (TwoLinesOf(r, p) /\ co[r].result # "ok") => co[r].failed_line = 2

\* C11 (amended): as claimed, except that the failing line is the second only
\* when q1 <= stock < q1 + q2; when q1 alone exceeds the stock the request
\* fails with InsufficientStock at the first line.
C11_LinesInOrder ==
    /\ C11_PrefixDecremented
    /\ C11_SucceedsIff
    /\ \A r \in Requests : \A p \in DOMAIN products :
           (TwoLinesOf(r, p) /\ co[r].result # "ok") =>
               co[r].failed_line =
                   IF co[r].data.items[1].quantity > co[r].stock0[p] THEN 1 ELSE 2

\* C11 witness: with stock 2 at the start, a request for 1 + 2 units of
\* product 1 failed at its second line, after its first line was decremented.
C11_Witness ==
    \E r \in Requests :
        /\ TwoLinesOf(r, 1) /\ co[r].stock0[1] = 2
        /\ co[r].data.items[1].quantity = 1 /\ co[r].data.items[2].quantity = 2
        /\ co[r].result = "InsufficientStock" /\ co[r].failed_line = 2
        /\ products[1].stock = 1

\* What C12 calls the snapshot of an order as it is read: its items and total.
Snapshot(order) == [items |-> order.items, total |-> order.total]

\* C12: once an order is persisted, no step (product update, rename,
\* deactivation or delete, order update, status update) changes its item rows
\* or its total, nor the items and total that a read of the order returns.
C12_ItemsImmutable ==
    [][\A o \in DOMAIN orders :
          /\ SelectOrderItems(o)' = SelectOrderItems(o)
          /\ orders'[o].total = orders[o].total
          /\ Snapshot(get_by_id(o))' = Snapshot(get_by_id(o))]_vars

\* C12 witness: an order whose status, notes and shipping address have been
\* updated, and whose product was renamed and repriced after the order was
\* persisted.
C12_Witness ==
    \E k \in DOMAIN order_items :
        LET row == order_items[k]
        IN  /\ products[row.product_id].name # row.product_name
            /\ products[row.product_id].price # row.unit_price
            /\ orders[row.order_id].status = "confirmed"
            /\ orders[row.order_id].notes # None
            /\ orders[row.order_id].shipping_address # None

\* Update-status request u takes its first step (the call of execute).
StatusCallStep(u) == us[u].pc \in {"idle", "done"} /\ us'[u] # us[u]

\* C13: an update-status call with an order id <= 0 ends at once with a
\* validation error, and one with an id that names no persisted order ends at
\* once with NotFound; both leave the tables orders and order_items as they
\* were, and neither request ever writes.
C13_NotFoundLeavesOrders ==
    [][\A u \in StatusRequests :
          /\ (StatusCallStep(u) /\ us'[u].order_id <= 0) =>
                 /\ us'[u].pc = "done" /\ us'[u].result = "ValidationError"
                 /\ orders' = orders /\ order_items' = order_items
          /\ (StatusCallStep(u) /\ us'[u].order_id > 0
                  /\ us'[u].order_id \notin DOMAIN orders) =>
                 /\ us'[u].pc = "done" /\ us'[u].result = "NotFound"
                 /\ orders' = orders /\ order_items' = order_items
          /\ us[u].result \in {"NotFound", "ValidationError"} => us[u].pc = "done"]_vars

\* C13 witness: with an order persisted, one request was refused for id 0 and
\* another found no order 2.
C13_Witness ==
    /\ Len(orders) = 1
    /\ \E u, v \in StatusRequests :
           /\ us[u].pc = "done" /\ us[u].result = "ValidationError"
           /\ us[u].order_id = 0
           /\ us[v].pc = "done" /\ us[v].result = "NotFound" /\ us[v].order_id = 2

\* Filters and pages a list-orders call is given.
ListUserIds == {{}, {1}, {2}}
ListSkips == {0, 1}
ListLimits == {1, 2, 100}

\* C14 (as claimed): list-orders with filter status = X and an optional
\* user_id returns a page holding only orders whose persisted status is X (and
\* whose owner is user_id), and a total equal to the number of persisted
\* orders that match the filter, for every skip >= 0 and limit in 1..100.
C14_ListFiltered ==
    \A X \in Statuses, user_id \in ListUserIds, skip \in ListSkips,
       limit \in ListLimits :
        \A res \in GetOrdersUseCase_execute(user_id, X, skip, limit) :
            /\ res.error = None
            /\ \A k \in DOMAIN res.orders :
                   /\ res.orders[k].status = X
                   /\ \A n \in user_id : res.orders[k].user_id = n
            /\ res.total =
                   Cardinality({o \in DOMAIN orders :
                                   /\ orders[o].status = X
                                   /\ \A n \in user_id : orders[o].user_id = n})

DecimalEq(a, b) ==
    IF a.e >= b.e THEN a.c = b.c * Pow10(a.e - b.e)
    ELSE b.c = a.c * Pow10(b.e - a.e)

\* C16 (as claimed): after a product was created or updated with a price p
\* (positive, at most 2 fractional digits), its row holds 100 * p cents and a
\* read of the product succeeds and yields exactly p.
C16_MoneyRoundTrip ==
    \A p \in DOMAIN products : \A d \in hist.price_in[p] :
        /\ products[p].price = d.c * Pow10(2 - d.e)
        /\ ProductValid(row_to_product(products[p]))
        /\ DecimalEq(row_to_product(products[p]).price, d)

\* A step of delete on product p.
DeleteStep(p) == p \notin hist.deleted /\ p \in hist'.deleted

\* Request r reads the product of its current line in this step.
LineReadStep(r) == co[r].pc = "get_product" /\ co'[r] # co[r]

C18_UsersUnique ==
    \A i, j \in DOMAIN users :
        i # j => /\ lower(users[i].email) # lower(users[j].email)
                 /\ lower(users[i].username) # lower(users[j].username)

\* Two registrations of the same email under different usernames both passed
\* their checks; one created the user, the other was refused by the table.
C18_Witness ==
    \E r1, r2 \in UserRequests :
        /\ ur[r1].op = "register" /\ ur[r2].op = "register"
        /\ lower(ur[r1].data.email) = lower(ur[r2].data.email)
        /\ ur[r1].data.email # ur[r2].data.email
        /\ ur[r1].data.username # ur[r2].data.username
        /\ ur[r1].result = "ok"
        /\ ur[r2].result = "IntegrityError"

\* C19: the order store's create is all or nothing: a request whose create
\* failed (a row refused, or a product not resolved during persistence) has
\* no orders row and no order_items row, and an orders row is never visible
\* without the order_items rows of all the lines of its request.
C19_CreateAtomic ==
    /\ \A k \in DOMAIN order_items : order_items[k].order_id \in DOMAIN orders
    /\ \A o \in DOMAIN orders :
        LET r == orders[o].by
        IN  /\ co[r].result = "ok"
            /\ co[r].order_id = o
            /\ Cardinality({k \in DOMAIN order_items :
                                order_items[k].order_id = o})
                   = Len(co[r].data.items)
    /\ \A r \in Requests :
        co[r].result # "ok" => \A o \in DOMAIN orders : orders[o].by # r

\* A request of two lines wrote the stock of both, then its product was not
\* resolved during persistence: the request failed and no row is persisted.
C19_Witness ==
    /\ co[1].pc = "done"
    /\ co[1].result = "ValidationError"
    /\ co[1].data.items = <<[product_id |-> 1, quantity |-> 1],
                            [product_id |-> 1, quantity |-> 1]>>
    /\ products[1].stock = MaxStock - 2
    /\ orders = <<>>
    /\ order_items = <<>>

\* The statuses of an order that is delivered, in the order they take.
DeliveryPath == <<"pending", "confirmed", "processing", "shipped">>

\* Sequence a is a subsequence of sequence b.
RECURSIVE IsSubsequence(_, _)
IsSubsequence(a, b) ==
    IF a = <<>> THEN TRUE
    ELSE IF b = <<>> THEN FALSE
    ELSE IF Head(a) = Head(b) THEN IsSubsequence(Tail(a), Tail(b))
    ELSE IsSubsequence(a, Tail(b))

AllButLast(log) == SubSeq(log, 1, Len(log) - 1)

\* C20: an order whose persisted status is delivered had before, in this
\* order, the persisted statuses pending, confirmed, processing and shipped;
\* and an update_status call that finds the order confirmed fails with an
\* invalid-transition error, and writes nothing, when it asks for delivered or
\* for confirmed again.
C20_StatusHistoryOrdered ==
    /\ [](\A o \in DOMAIN orders :
            /\ hist.status_log[o][Len(hist.status_log[o])] = orders[o].status
            /\ orders[o].status = "delivered" =>
                   IsSubsequence(DeliveryPath, AllButLast(hist.status_log[o])))
    /\ [][\A u \in StatusRequests :
            (/\ StatusCallStep(u)
             /\ us'[u].order_id \in DOMAIN orders
             /\ orders[us'[u].order_id].status = "confirmed"
             /\ us'[u].new_status \in {"delivered", "confirmed"}) =>
                /\ us'[u].pc = "done"
                /\ us'[u].result = "InvalidTransition"
                /\ orders' = orders]_vars

\* The order went pending, confirmed, processing, shipped, delivered, and a
\* call for delivered that found it confirmed was refused.
C20_Witness ==
    /\ 1 \in DOMAIN orders
    /\ orders[1].status = "delivered"
    /\ hist.status_log[1] =
           <<"pending", "confirmed", "processing", "shipped", "delivered">>
    /\ \E u \in StatusRequests :
        /\ us[u].pc = "done"
        /\ us[u].order_id = 1
        /\ us[u].read_status = "confirmed"
        /\ us[u].new_status = "delivered"
        /\ us[u].result = "InvalidTransition"

\* C21: under any interleaving of update-status requests on one order, every
\* change of the order's persisted status is a pair of the transition table,
\* taken from the status persisted immediately before it.
C21_EveryChangeAllowed ==
    [][\A o \in DOMAIN orders :
          orders'[o].status # orders[o].status =>
              orders'[o].status \in valid_transitions[orders[o].status]]_vars

\* The order_items rows of order o, in the order they were inserted.
RECURSIVE ItemRowsOf(_, _)
ItemRowsOf(o, k) ==
    IF k > Len(order_items) THEN <<>>
    ELSE (IF order_items[k].order_id = o THEN <<order_items[k]>> ELSE <<>>)
             \o ItemRowsOf(o, k + 1)

\* C22: the unit_price and product_name of each order item are the price and
\* name the product had when the stock of that line was checked and
\* decremented in step 2 of create-order.
C22_SnapshotAtDecrement ==
    \A o \in DOMAIN orders :
        LET r == orders[o].by
            rows == ItemRowsOf(o, 1)
        IN  \A k \in 1..Len(rows) :
                /\ rows[k].unit_price = co[r].seen[k].price
                /\ rows[k].product_name = co[r].seen[k].name

\* Update-status request u writes the status it validated.
StatusWriteStep(u) == us[u].pc = "repo_update" /\ us'[u].pc = "repo_reread"

\* C23: only a validated update_status changes an order's persisted status:
\* under any sequence of partial updates (PUT /orders/{id}, the store's
\* update) every change of the status is the write of an update-status
\* request and a pair of the transition table.
C23_OnlyValidatedStatusChanges ==
    [][\A o \in DOMAIN orders :
          orders'[o].status # orders[o].status =>
              /\ \E u \in StatusRequests :
                    StatusWriteStep(u) /\ us[u].order_id = o
              /\ orders'[o].status \in valid_transitions[orders[o].status]]_vars

\* C24: a successful update_status(order, s) persists s, returns an order
\* whose status is s, and updated_at never goes back (so the order returned
\* is not older than the one before the call), whatever other update-status
\* request commits between the write and the re-read.
C24_ReturnsWrittenStatus ==
    /\ [](\A u \in StatusRequests :
            (us[u].pc = "done" /\ us[u].result = "ok") =>
                us[u].returned_status = us[u].new_status)
    /\ [][\A o \in DOMAIN orders :
            /\ orders'[o].updated_at >= orders[o].updated_at
            /\ \A u \in StatusRequests :
                (StatusWriteStep(u) /\ us[u].order_id = o) =>
                    /\ orders'[o].status = us[u].new_status
                    /\ orders'[o].updated_at > orders[o].updated_at]_vars

\* C25: through the HTTP layer only an administrator changes an order's
\* status: every change of a persisted status is the write of a PATCH
\* /orders/{id}/status request whose caller is an administrator, and a request
\* that was answered 401, 403 or 404, or a PUT /orders/{id} with a status,
\* changes no status.
C25_OnlyAdminChangesStatus ==
    [][\A o \in DOMAIN orders :
          orders'[o].status # orders[o].status =>
              \E u \in StatusRequests :
                  /\ StatusWriteStep(u)
                  /\ us[u].order_id = o
                  /\ us[u].caller \in DOMAIN users
                  /\ users[us[u].caller].is_admin]_vars

\* An active user who is not an administrator asked for a table-allowed move
\* of an existing order and was answered 403; the order is still pending.
C25_Witness ==
    /\ 1 \in DOMAIN orders
    /\ orders[1].status = "pending"
    /\ us[1].pc = "done"
    /\ us[1].caller = 2
    /\ users[2].is_active /\ ~users[2].is_admin
    /\ us[1].order_id = 1
    /\ us[1].new_status = "confirmed"
    /\ us[1].result = "Http403"

\* C26: bulk-create is all or nothing: when the request has ended with an
\* error, no product of its batch is persisted, those created earlier in the
\* same call included.
C26_BulkAllOrNothing ==
    (bulk.pc = "done" /\ bulk.result # "ok") => Len(products) = bulk.len0

\* C27: an update_status call that is refused as an invalid transition
\* leaves the orders row (status, updated_at, shipping_address, notes, total)
\* and the order_items rows exactly as they were.
C27_RejectedLeavesOrder ==
    [][\A u \in StatusRequests :
          (StatusCallStep(u) /\ us'[u].result = "InvalidTransition") =>
              /\ us'[u].pc = "done"
              /\ orders' = orders
              /\ order_items' = order_items]_vars

\* An order that carries notes from an earlier partial update was asked to go
\* from pending to delivered; the call was refused and the row is as before.
C27_Witness ==
    /\ 1 \in DOMAIN orders
    /\ us[1].pc = "done"
    /\ us[1].result = "InvalidTransition"
    /\ us[1].order_id = 1
    /\ us[1].read_status = "pending"
    /\ us[1].new_status = "delivered"
    /\ orders[1].status = "pending"
    /\ orders[1].notes = "morning"
    /\ orders[1].updated_at = 1

\* A step of an update-status request (the call, the write or the re-read).
StatusStep == \E u \in StatusRequests : us'[u] # us[u]

\* C28: every step of an update-status request, the write of any status
\* (cancelled included) among them, leaves table products as it was: stock,
\* price and is_active of every product are unchanged, and cancelling an order
\* does not return its quantities to stock.
C28_StatusLeavesProducts ==
    [][StatusStep => products' = products]_vars

\* An order of one unit was created (stock went down by one) and then
\* cancelled; the stock is still one below the initial stock.
C28_Witness ==
    /\ 1 \in DOMAIN orders
    /\ orders[1].status = "cancelled"
    /\ hist.status_log[1] = <<"pending", "cancelled">>
    /\ \E u \in StatusRequests :
        us[u].pc = "done" /\ us[u].result = "ok" /\ us[u].new_status = "cancelled"
    /\ products[1].stock = MaxStock - 1
    /\ products[1].is_active
    /\ products[1].price = 1999

\* No create-order request is in progress.
NoCreateOrderInProgress == \A r \in Requests : co[r].pc \in {"idle", "done"}

\* C29: stock accounting: when no create-order request is in progress (and
\* nothing but create-order writes the stock, as under SpecOrders), the stock
\* every product started with equals its persisted stock plus the quantities
\* of all persisted order items that reference it.
C29_StockAccounting ==
    NoCreateOrderInProgress =>
        \A p \in DOMAIN products :
            MaxStock = products[p].stock + LinesQuantity(order_items, p)

====
